---- MODULE Spec2Model ----
(***************************************************************************)
(* texttract-mint: the extraction orchestrator (lib/aws/textract.ts,       *)
(* processDocument), the upload handlers that call it                      *)
(* (api/upload/process, api/upload/presigned-url) and the metadata store   *)
(* (lib/database/mongodb.ts) they write to.                                *)
(*                                                                         *)
(* One step of the model is the completion of one await of the code        *)
(* together with the synchronous code that follows it up to the next       *)
(* await.  Durations are counted in quarter milliseconds so that the       *)
(* backoff sequence 2000 * 1.5^k is exact.                                 *)
(***************************************************************************)
EXTENDS Integers, Sequences, FiniteSets, TLC

\* ------------------------------------------------------------------ bounds
MaxDocs == 1          \* documents the presigned-url handler may create
MaxBlocks == 2        \* blocks the remote service delivers to one invocation
MaxFiles == 7         \* files selected for one upload action
MaxKeys == 3          \* changes of the search input
MaxClients == 2       \* clients the connection module creates

\* The callers of the connection module that may be in a call together.
Callers == 1..2
IdleCall == [op |-> "none", at |-> "done"]

\* ------------------------------------------------------- program constants
initialBackoffMs == 2000
maxBackoffMs == 30000
timeoutMs == 300000

Ms(n) == n * 4
Min(a, b) == IF a <= b THEN a ELSE b

\* The request slots: at most two process requests are in flight together.
Reqs == 1..2
UnknownId == MaxDocs + 1     \* an id no record ever carries

\* ---------------------------------------------------------- remote service
\* Textract blocks: BlockType and the optional Text (a string is a sequence
\* of characters); a PAGE block carries no Text.
Hello == <<"H", "e", "l", "l", "o">>
World == <<"W", "o", "r", "l", "d">>
NL == "\n"

BlockKinds ==
  { [BlockType |-> "LINE", Text |-> Hello],
    [BlockType |-> "LINE", Text |-> World],
    [BlockType |-> "PAGE"] }

RECURSIVE SeqsUpTo(_, _)
SeqsUpTo(S, n) ==
  IF n = 0 THEN {<<>>}
  ELSE LET shorter == SeqsUpTo(S, n - 1)
       IN shorter \cup {Append(s, x) : s \in shorter, x \in S}

\* The Blocks member of one response: absent (<<>>) or a list of blocks.
BlockLists == SeqsUpTo(BlockKinds, MaxBlocks)

JobStatuses == {"IN_PROGRESS", "SUCCEEDED", "FAILED", "PARTIAL_SUCCESS"}

\* What StartDocumentTextDetection can answer.
SubmitResults ==
  {"JobId", "NoJobId", "ThrottlingException", "DocumentTooLargeException",
   "InvalidS3ObjectException", "OtherException"}

VARIABLES
  env,          \* the environment of this run: request slots, what the
                \* remote service may answer and how long its calls take
  coll,         \* the pdf_metadata collection, in insertion order
  issued,       \* number of presigned uploads issued so far
  uploadClock,  \* the clock uploadedAt is read from
  pc,           \* per request: the await the handler is suspended at
  body,         \* per request: the parsed request body
  status,       \* per request: processDocument's status
  allBlocks,    \* per request: processDocument's allBlocks
  pollCount,    \* per request: processDocument's pollCount
  backoffMs,    \* per request: processDocument's backoffMs (quarter ms)
  clock,        \* per request: Date.now() - startTime (quarter ms)
  outcome,      \* per request: what processDocument returned or threw
  response,     \* per request: the handler's HTTP response
  submits,      \* per request: StartDocumentTextDetection calls issued
  waits,        \* per request: the durations of the waits, in order
  paged,        \* per request: a page fetch has been issued
  received,     \* per request: every block a response delivered, in order
  lastOp,       \* per request: the last await of processDocument that ended
  nOutcomes,    \* per request: times processDocument returned or threw
  updCalls,     \* per request: updatePDFMetadata calls issued
  delCalls,     \* per request: deleteFromS3 calls issued
  submitted,    \* per request: what StartDocumentTextDetection answered
  delFailed,    \* per request: the success path's deleteFromS3 threw
  storeCall,    \* the last call of the store made by a direct caller
  storeRet,     \* what that call returned or threw
  searchReq,    \* the q parameter of the last search request
  searchResp,   \* the response to the last search request
  listResp,     \* the response to the last listing request
  presignReq,   \* the last presigned-url request and the calls it made
  presignResp,  \* the response to the last presigned-url request
  selected,     \* FileUpload: the number of selected files
  uploadPc,     \* FileUpload: where handleUpload is
  loopIndex,    \* FileUpload: handleUpload's i
  stage,        \* FileUpload: per file, the await uploadFile is suspended at
  typed,        \* SearchBar: the number of changes of the input so far
  timers,       \* SearchBar: the pending timers, each with its query
  fetches,      \* SearchBar: the search requests in flight
  delivered,    \* SearchBar: the last call of onSearch
  client,       \* connection module: client (0 is null)
  db,           \* connection module: db, as the client it came from (0 is null)
  conn,         \* connection module: the state of every client created
  calls         \* connection module: per caller, the call it is in

procVars == <<status, allBlocks, pollCount, backoffMs, clock, outcome,
              submits, waits, paged, received, lastOp, nOutcomes>>
storeVars == <<coll, issued, uploadClock>>
handlerVars == <<pc, body, response, updCalls, delCalls>>
presignVars == <<presignReq, presignResp>>
uploadVars == <<selected, uploadPc, loopIndex, stage>>
barVars == <<typed, timers, fetches, delivered>>
connVars == <<client, db, conn, calls>>
sideVars == <<uploadVars, barVars, connVars>>
apiVars == <<storeCall, storeRet, searchReq, searchResp, listResp>>
vars == <<env, coll, issued, uploadClock, pc, body, status, allBlocks,
          pollCount, backoffMs, clock, outcome, response, submits, waits,
          paged, received, lastOp, nOutcomes, updCalls, delCalls, submitted,
          delFailed, storeCall, storeRet, searchReq, searchResp, listResp,
          presignReq, presignResp, selected, uploadPc, loopIndex, stage,
          typed, timers, fetches, delivered, client, db, conn, calls>>

\* --------------------------------------------------------------- textract.ts
\* block.Text || ""
TextOf(b) == IF "Text" \in DOMAIN b THEN b.Text ELSE <<>>

\* The filter letting every block type through.
IsAnyBlock(b) == TRUE

IsLine(b) == b.BlockType = "LINE"

RECURSIVE join(_, _)
join(strs, sep) ==
  IF strs = <<>> THEN <<>>
  ELSE IF Len(strs) = 1 THEN strs[1]
  ELSE strs[1] \o <<sep>> \o join(Tail(strs), sep)

extractTextFromBlocks(blocks) ==
  LET lines == SelectSeq(blocks, IsLine)
  IN join([i \in 1..Len(lines) |-> TextOf(lines[i])], NL)

\* A submission whose every rejection is reported as the same failure.
startTextExtractionGeneric(res) == IF res = "JobId" THEN "" ELSE "StartFailed"

\* The error startTextExtraction throws for what the service answered
\* (its catch block), "" when it returns the JobId.
startTextExtraction(res) ==
  CASE res = "JobId" -> ""
    [] res = "ThrottlingException" -> "Throttled"
    [] res = "DocumentTooLargeException" -> "TooLarge"
    [] res = "InvalidS3ObjectException" -> "InvalidS3Object"
    [] OTHER -> "StartFailed"

\* response.JobStatus || "UNKNOWN"
getTextExtractionStatus(jobStatus) ==
  IF jobStatus = "" THEN "UNKNOWN" ELSE jobStatus

\* The backoff growing without its cap.
NextBackoffUncapped(b) == (b * 3) \div 2

\* Math.min(backoffMs * 1.5, maxBackoffMs)
NextBackoff(b) == Min((b * 3) \div 2, Ms(maxBackoffMs))

\* The timeout check with the ceiling taken in the wrong unit.
TimedOutLate(clk) == clk > Ms(timeoutMs) * 60

\* Date.now() - startTime > timeoutMs
TimedOut(clk) == clk > Ms(timeoutMs)

\* The message of the Error processDocument throws, by the error it caught
\* (lines 198-202 wrap the message of lines 69, 73, 76, 78, 153, 191, 109 or
\* of the error a page fetch threw).
Message(err) ==
  CASE err = "Throttled" ->
         "Failed to process document: AWS Textract is throttled. Please try again later."
    [] err = "TooLarge" ->
         "Failed to process document: PDF document is too large for Textract processing."
    [] err = "InvalidS3Object" ->
         "Failed to process document: Invalid S3 object. Please check the bucket and key."
    [] err = "StartFailed" ->
         "Failed to process document: Failed to start text extraction: ..."
    [] err = "Timeout" ->
         "Failed to process document: Text extraction timed out after 5 minutes. Document may be too large."
    [] err = "JobFailed" ->
         "Failed to process document: Textract job failed. Please check the PDF and try again."
    [] err = "StatusFailed" ->
         "Failed to process document: Failed to get text extraction status: ..."
    [] OTHER -> "Failed to process document: ..."

NoOutcome == [kind |-> "none"]
Return(text) == [kind |-> "text", text |-> text]
Throw(err) == [kind |-> "error", err |-> err]

\* LoopHead without the check of the FAILED status.
LoopHeadIgnoringFailed(st, blocks, clk) ==
  IF st = "IN_PROGRESS"
  THEN IF TimedOut(clk) THEN Throw("Timeout") ELSE NoOutcome
  ELSE Return(extractTextFromBlocks(blocks))

\* The synchronous code of processDocument from the loop condition on: the
\* outcome it ends with, or NoOutcome when it goes on to the next wait.
LoopHead(st, blocks, clk) ==
  IF st = "IN_PROGRESS"
  THEN IF TimedOut(clk) THEN Throw("Timeout") ELSE NoOutcome
  ELSE IF st = "FAILED" THEN Throw("JobFailed")
  ELSE Return(extractTextFromBlocks(blocks))

\* ------------------------------------------------------ database/mongodb.ts
\* The fields of PDFMetadata.
MetadataFields ==
  {"id", "filename", "extractedText", "uploadedAt", "textractJobId", "status"}

\* The update fields with the id left in.
KeepId(updates) == updates

WithoutId(updates) == [f \in DOMAIN updates \ {"id"} |-> updates[f]]

Matches(c, id) == {i \in 1..Len(c) : c[i].id = id}

FirstMatch(c, id) == CHOOSE i \in Matches(c, id) : \A j \in Matches(c, id) : i <= j

Merge(doc, fields) ==
  [f \in DOMAIN doc \cup DOMAIN fields |->
     IF f \in DOMAIN fields THEN fields[f] ELSE doc[f]]

\* An update that refuses a record already in a terminal status.
updateProcessingOnly(c, id, updates) ==
  IF Matches(c, id) = {} \/ c[FirstMatch(c, id)].status # "processing" THEN c
  ELSE [c EXCEPT ![FirstMatch(c, id)] = Merge(@, WithoutId(updates))]

\* An update that applies the status and drops the other supplied fields.
updateStatusOnly(c, id, updates) ==
  IF Matches(c, id) = {} THEN c
  ELSE [c EXCEPT ![FirstMatch(c, id)] =
          Merge(@, [f \in DOMAIN updates \cap {"status"} |-> updates[f]])]

\* An insert that is never performed.
addNothing(c, metadata) == c

\* An update that inserts the fields when no document has the id.
updateUpserting(c, id, updates) ==
  IF Matches(c, id) = {} THEN Append(c, Merge([id |-> id], WithoutId(updates)))
  ELSE [c EXCEPT ![FirstMatch(c, id)] = Merge(@, WithoutId(updates))]

\* findOneAndUpdate({id}, {$set: updateFields}): the collection afterwards.
updatePDFMetadata(c, id, updates) ==
  IF Matches(c, id) = {} THEN c
  ELSE [c EXCEPT ![FirstMatch(c, id)] = Merge(@, WithoutId(updates))]

\* A document built with the time of the insert as its uploadedAt.
DocumentStampedNow(metadata) ==
  [f \in DOMAIN metadata \cap MetadataFields |->
     IF f = "uploadedAt" THEN 0 ELSE metadata[f]]

\* The document addPDFMetadata builds from its argument (lines 224-231).
Document(metadata) ==
  [f \in DOMAIN metadata \cap MetadataFields |-> metadata[f]]

\* An insert into a collection without the unique index on id.
insertAny(c, metadata) == Append(c, Document(metadata))

\* insertOne(document): the collection afterwards.  The unique index on id
\* (ensureIndexes line 146, and the database's initialisation script) makes
\* the insert of a second document with the same id throw.
addPDFMetadata(c, metadata) ==
  IF Matches(c, metadata.id) # {} THEN c ELSE Append(c, Document(metadata))

\* insertMany(documents), ordered: the documents are inserted one by one and
\* the first whose id is already stored stops the insert.
RECURSIVE insertMany(_, _)
insertMany(c, documents) ==
  IF documents = <<>> \/ Matches(c, Head(documents).id) # {} THEN c
  ELSE insertMany(Append(c, Document(Head(documents))), Tail(documents))

\* saveMetadata, lines 189-214: deleteMany({}), then insertMany of the list
\* when it is not empty; the collection afterwards.
saveMetadata(c, metadata) == insertMany(<<>>, metadata)

\* ------------------------------------------------------ api/upload/process
\* A second read that answers the body parsed before (unparsable JSON still
\* rejects).
RereadCachedBody(b) == IF "bad" \in DOMAIN b THEN "rejects" ELSE "body"

\* The second await request.json() of the handler, in its catch block: the
\* body stream was consumed by the first read, so the read rejects.
RereadBody(b) == "rejects"

\* !id || !s3Key
MissingField(b) == ~("id" \in DOMAIN b) \/ ~("s3Key" \in DOMAIN b)

BadJson == [bad |-> TRUE]

Bodies ==
  {BadJson}
  \cup {[id |-> i, s3Key |-> "key"] : i \in (1..issued) \cup {UnknownId}}
  \cup {[id |-> i] : i \in (1..issued) \cup {UnknownId}}
  \cup {[s3Key |-> "key"]}

NoResponse == [kind |-> "none"]

\* processDocument goes on to its next wait (o is NoOutcome) or settles its
\* promise with o.
Continue(r, o) ==
  /\ pc' = [pc EXCEPT ![r] = IF o.kind = "none" THEN "waiting" ELSE "settled"]
  /\ outcome' = [outcome EXCEPT ![r] = IF o.kind = "none" THEN @ ELSE o]
  /\ nOutcomes' = [nOutcomes EXCEPT ![r] = IF o.kind = "none" THEN @ ELSE @ + 1]

\* POST /api/upload/process: read and validate the body, call processDocument,
\* which calls startTextExtraction.
ProcessRequest(r, b) ==
  /\ r \in env.reqs
  /\ pc[r] = "idle"
  /\ b \in Bodies
  /\ body' = [body EXCEPT ![r] = b]
  /\ IF b = BadJson
     THEN /\ pc' = [pc EXCEPT ![r] = "catch"]
          /\ UNCHANGED <<response, submits>>
     ELSE IF MissingField(b)
     THEN /\ pc' = [pc EXCEPT ![r] = "responded"]
          /\ response' = [response EXCEPT ![r] = [kind |-> "400"]]
          /\ UNCHANGED submits
     ELSE /\ pc' = [pc EXCEPT ![r] = "submitting"]
          /\ submits' = [submits EXCEPT ![r] = @ + 1]
          /\ UNCHANGED response
  /\ UNCHANGED <<env, sideVars, presignVars, apiVars, submitted, delFailed, storeVars, updCalls,
                 delCalls, status, allBlocks, pollCount, backoffMs, clock,
                 outcome, waits, paged, received, lastOp, nOutcomes>>

\* A failed submission that is issued again.
SubmitReturnsRetrying(r, res) ==
  /\ pc[r] = "submitting"
  /\ res \in SubmitResults
  /\ lastOp' = [lastOp EXCEPT ![r] = "submit"]
  /\ submitted' = [submitted EXCEPT ![r] = res]
  /\ IF startTextExtraction(res) = ""
     THEN /\ status' = [status EXCEPT ![r] = "IN_PROGRESS"]
          /\ allBlocks' = [allBlocks EXCEPT ![r] = <<>>]
          /\ pollCount' = [pollCount EXCEPT ![r] = 0]
          /\ backoffMs' = [backoffMs EXCEPT ![r] = Ms(initialBackoffMs)]
          /\ clock' = [clock EXCEPT ![r] = 0]
          /\ Continue(r, LoopHead("IN_PROGRESS", <<>>, 0))
          /\ UNCHANGED submits
     ELSE /\ submits' = [submits EXCEPT ![r] = @ + 1]
          /\ UNCHANGED <<pc, outcome, nOutcomes, status, allBlocks, pollCount,
                         backoffMs, clock>>
  /\ UNCHANGED <<env, sideVars, presignVars, apiVars, delFailed, storeVars, body, response, updCalls,
                 delCalls, waits, paged, received>>

\* A submission that writes the job id into the document's record.
SubmitReturnsRecordingJob(r, res) ==
  /\ pc[r] = "submitting"
  /\ res \in SubmitResults
  /\ lastOp' = [lastOp EXCEPT ![r] = "submit"]
  /\ submitted' = [submitted EXCEPT ![r] = res]
  /\ IF startTextExtraction(res) = ""
     THEN /\ status' = [status EXCEPT ![r] = "IN_PROGRESS"]
          /\ allBlocks' = [allBlocks EXCEPT ![r] = <<>>]
          /\ pollCount' = [pollCount EXCEPT ![r] = 0]
          /\ backoffMs' = [backoffMs EXCEPT ![r] = Ms(initialBackoffMs)]
          /\ clock' = [clock EXCEPT ![r] = 0]
          /\ coll' = updatePDFMetadata(coll, body[r].id, [textractJobId |-> res])
          /\ Continue(r, LoopHead("IN_PROGRESS", <<>>, 0))
     ELSE /\ Continue(r, Throw(startTextExtraction(res)))
          /\ UNCHANGED <<coll, status, allBlocks, pollCount, backoffMs, clock>>
  /\ UNCHANGED <<env, sideVars, presignVars, apiVars, delFailed, issued, uploadClock, body, response,
                 updCalls, delCalls, submits, waits, paged, received>>

\* startTextExtraction returns or throws; processDocument lines 137-158.
SubmitReturns(r, res) ==
  /\ pc[r] = "submitting"
  /\ res \in SubmitResults
  /\ lastOp' = [lastOp EXCEPT ![r] = "submit"]
  /\ submitted' = [submitted EXCEPT ![r] = res]
  /\ IF startTextExtraction(res) = ""
     THEN /\ status' = [status EXCEPT ![r] = "IN_PROGRESS"]
          /\ allBlocks' = [allBlocks EXCEPT ![r] = <<>>]
          /\ pollCount' = [pollCount EXCEPT ![r] = 0]
          /\ backoffMs' = [backoffMs EXCEPT ![r] = Ms(initialBackoffMs)]
          /\ clock' = [clock EXCEPT ![r] = 0]
          /\ Continue(r, LoopHead("IN_PROGRESS", <<>>, 0))
     ELSE /\ Continue(r, Throw(startTextExtraction(res)))
          /\ UNCHANGED <<status, allBlocks, pollCount, backoffMs, clock>>
  /\ UNCHANGED <<env, sideVars, presignVars, apiVars, delFailed, storeVars, body, response, updCalls,
                 delCalls, submits, waits, paged, received>>

\* A wait measured on one clock that every invocation shares.
WaitElapsesSharedClock(r) ==
  /\ pc[r] = "waiting"
  /\ pc' = [pc EXCEPT ![r] = "polling"]
  /\ clock' = [q \in Reqs |-> clock[q] + backoffMs[r]]
  /\ waits' = [waits EXCEPT ![r] = Append(@, backoffMs[r])]
  /\ lastOp' = [lastOp EXCEPT ![r] = "wait"]
  /\ UNCHANGED <<env, sideVars, presignVars, apiVars, submitted, delFailed, storeVars, body,
                 response, updCalls, delCalls, status, allBlocks, pollCount,
                 backoffMs, outcome, submits, paged, received, nOutcomes>>

\* await new Promise(resolve => setTimeout(resolve, backoffMs)), then the
\* status poll is issued.
WaitElapses(r) ==
  /\ pc[r] = "waiting"
  /\ pc' = [pc EXCEPT ![r] = "polling"]
  /\ clock' = [clock EXCEPT ![r] = @ + backoffMs[r]]
  /\ waits' = [waits EXCEPT ![r] = Append(@, backoffMs[r])]
  /\ lastOp' = [lastOp EXCEPT ![r] = "wait"]
  /\ UNCHANGED <<env, sideVars, presignVars, apiVars, submitted, delFailed, storeVars, body,
                 response, updCalls, delCalls, status, allBlocks, pollCount,
                 backoffMs, outcome, submits, paged, received, nOutcomes>>

\* What the remote may answer to a status poll or page fetch of request r.
Latencies(r) == {l \in env.lats : clock[r] + l <= env.horizon}
Blocks(r) ==
  {bl \in BlockLists :
     /\ Len(received[r]) + Len(bl) <= env.room
     /\ \A i \in 1..Len(bl) : bl[i] \in env.kinds}

\* getTextExtractionStatus throws (the call failed).
PollThrows(r, lat) ==
  /\ pc[r] = "polling"
  /\ lat \in Latencies(r)
  /\ clock' = [clock EXCEPT ![r] = @ + lat]
  /\ lastOp' = [lastOp EXCEPT ![r] = "poll"]
  /\ Continue(r, Throw("StatusFailed"))
  /\ UNCHANGED <<env, sideVars, presignVars, apiVars, submitted, delFailed, storeVars, body,
                 response, updCalls, delCalls, status, allBlocks, pollCount,
                 backoffMs, submits, waits, paged, received>>

\* getTextExtractionStatus returns; processDocument lines 162-175, then the
\* page loop's first fetch or the loop head.
PollReturns(r, lat, jobStatus, blocks, token) ==
  /\ pc[r] = "polling"
  /\ lat \in Latencies(r)
  /\ blocks \in Blocks(r)
  /\ jobStatus \in env.statuses
  /\ clock' = [clock EXCEPT ![r] = @ + lat]
  /\ lastOp' = [lastOp EXCEPT ![r] = "poll"]
  /\ status' = [status EXCEPT ![r] = getTextExtractionStatus(jobStatus)]
  /\ allBlocks' = [allBlocks EXCEPT ![r] = @ \o blocks]
  /\ received' = [received EXCEPT ![r] = @ \o blocks]
  /\ backoffMs' = [backoffMs EXCEPT ![r] = NextBackoff(@)]
  /\ pollCount' = [pollCount EXCEPT ![r] = @ + 1]
  /\ IF token
     THEN /\ pc' = [pc EXCEPT ![r] = "paging"]
          /\ paged' = [paged EXCEPT ![r] = TRUE]
          /\ UNCHANGED <<outcome, nOutcomes>>
     ELSE /\ Continue(r, LoopHead(getTextExtractionStatus(jobStatus),
                                  allBlocks[r] \o blocks, clock[r] + lat))
          /\ UNCHANGED paged
  /\ UNCHANGED <<env, sideVars, presignVars, apiVars, submitted, delFailed, storeVars, body,
                 response, updCalls, delCalls, submits, waits>>

\* client.send of a page fetch throws.
PageThrows(r, lat) ==
  /\ pc[r] = "paging"
  /\ lat \in Latencies(r)
  /\ clock' = [clock EXCEPT ![r] = @ + lat]
  /\ lastOp' = [lastOp EXCEPT ![r] = "page"]
  /\ Continue(r, Throw("PageFailed"))
  /\ UNCHANGED <<env, sideVars, presignVars, apiVars, submitted, delFailed, storeVars, body,
                 response, updCalls, delCalls, status, allBlocks, pollCount,
                 backoffMs, submits, waits, paged, received>>

\* A page loop that waits for the backoff before it fetches the next page.
PageReturnsThenWaits(r, lat, blocks, token) ==
  /\ pc[r] = "paging"
  /\ lat \in Latencies(r)
  /\ blocks \in Blocks(r)
  /\ clock' = [clock EXCEPT ![r] = @ + lat + (IF token THEN backoffMs[r] ELSE 0)]
  /\ waits' = [waits EXCEPT ![r] = IF token THEN Append(@, backoffMs[r]) ELSE @]
  /\ lastOp' = [lastOp EXCEPT ![r] = "page"]
  /\ allBlocks' = [allBlocks EXCEPT ![r] = @ \o blocks]
  /\ received' = [received EXCEPT ![r] = @ \o blocks]
  /\ IF token
     THEN UNCHANGED <<pc, outcome, nOutcomes>>
     ELSE Continue(r, LoopHead(status[r], allBlocks[r] \o blocks, clock[r] + lat))
  /\ UNCHANGED <<env, sideVars, presignVars, apiVars, submitted, delFailed, storeVars, body,
                 response, updCalls, delCalls, status, pollCount, backoffMs,
                 submits, paged>>

\* client.send of a page fetch returns; processDocument lines 183-187, then
\* the next page fetch or the loop head.
PageReturns(r, lat, blocks, token) ==
  /\ pc[r] = "paging"
  /\ lat \in Latencies(r)
  /\ blocks \in Blocks(r)
  /\ clock' = [clock EXCEPT ![r] = @ + lat]
  /\ lastOp' = [lastOp EXCEPT ![r] = "page"]
  /\ allBlocks' = [allBlocks EXCEPT ![r] = @ \o blocks]
  /\ received' = [received EXCEPT ![r] = @ \o blocks]
  /\ IF token
     THEN UNCHANGED <<pc, outcome, nOutcomes>>
     ELSE Continue(r, LoopHead(status[r], allBlocks[r] \o blocks, clock[r] + lat))
  /\ UNCHANGED <<env, sideVars, presignVars, apiVars, submitted, delFailed, storeVars, body,
                 response, updCalls, delCalls, status, pollCount, backoffMs,
                 submits, waits, paged>>

\* The handler resumes from await processDocument(s3Key): after a return it
\* calls deleteFromS3, after a throw its catch block reads the body again.
\* The invocation's transient state is discarded.
HandlerResumes(r) ==
  /\ pc[r] = "settled"
  /\ pc' = [pc EXCEPT ![r] = IF outcome[r].kind = "text" THEN "deleting" ELSE "catch"]
  /\ delCalls' = [delCalls EXCEPT ![r] = IF outcome[r].kind = "text" THEN @ + 1 ELSE @]
  /\ status' = [status EXCEPT ![r] = ""]
  /\ allBlocks' = [allBlocks EXCEPT ![r] = <<>>]
  /\ pollCount' = [pollCount EXCEPT ![r] = 0]
  /\ backoffMs' = [backoffMs EXCEPT ![r] = 0]
  /\ clock' = [clock EXCEPT ![r] = 0]
  /\ waits' = [waits EXCEPT ![r] = <<>>]
  /\ paged' = [paged EXCEPT ![r] = FALSE]
  /\ received' = [received EXCEPT ![r] = <<>>]
  /\ lastOp' = [lastOp EXCEPT ![r] = "none"]
  /\ submitted' = [submitted EXCEPT ![r] = ""]
  /\ UNCHANGED <<env, sideVars, presignVars, apiVars, delFailed, storeVars, body, response, updCalls,
                 outcome, submits, nOutcomes>>

\* A delete whose failure is not caught but reaches the handler's catch block.
DeleteFailurePropagates(r, thrown) ==
  /\ pc[r] = "deleting"
  /\ thrown \in BOOLEAN
  /\ pc' = [pc EXCEPT ![r] = IF thrown THEN "catch" ELSE "updating"]
  /\ delFailed' = [delFailed EXCEPT ![r] = thrown]
  /\ updCalls' = [updCalls EXCEPT ![r] = IF thrown THEN @ ELSE @ + 1]
  /\ UNCHANGED <<env, sideVars, presignVars, apiVars, submitted, storeVars, body, response, delCalls,
                 procVars>>

\* deleteFromS3 of the success path returns or throws (the throw is caught
\* and logged, lines 27-30); the handler goes on to call updatePDFMetadata.
DeleteReturns(r, thrown) ==
  /\ pc[r] = "deleting"
  /\ thrown \in BOOLEAN
  /\ pc' = [pc EXCEPT ![r] = "updating"]
  /\ delFailed' = [delFailed EXCEPT ![r] = thrown]
  /\ updCalls' = [updCalls EXCEPT ![r] = @ + 1]
  /\ UNCHANGED <<env, sideVars, presignVars, apiVars, submitted, storeVars, body, response, delCalls,
                 procVars>>

\* The fields of the success path's update.
\* An update that writes the text and leaves the status as it is.
TextOnlyUpdate(text) == [extractedText |-> text]

CompletedUpdate(text) == [extractedText |-> text, status |-> "completed"]

\* updatePDFMetadata of the success path returns (the record, or null when
\* no record has the id) and the handler answers success.
UpdateReturns(r) ==
  /\ pc[r] = "updating"
  /\ coll' = updatePDFMetadata(coll, body[r].id, CompletedUpdate(outcome[r].text))
  /\ pc' = [pc EXCEPT ![r] = "responded"]
  /\ response' = [response EXCEPT ![r] =
       [kind |-> "success", id |-> body[r].id,
        extractedTextLength |-> Len(outcome[r].text)]]
  /\ UNCHANGED <<env, sideVars, presignVars, apiVars, submitted, delFailed, issued, uploadClock,
                 body, updCalls, delCalls, procVars>>

\* updatePDFMetadata of the success path throws: the store is unchanged and
\* the handler enters its catch block.
UpdateThrows(r) ==
  /\ pc[r] = "updating"
  /\ pc' = [pc EXCEPT ![r] = "catch"]
  /\ UNCHANGED <<env, sideVars, presignVars, apiVars, submitted, delFailed, storeVars, body,
                 response, updCalls, delCalls, procVars>>

\* The message of the error the catch block caught.
CaughtMessage(r) ==
  IF outcome[r].kind = "error" THEN outcome[r].err
  ELSE IF outcome[r].kind = "text" THEN "UpdateFailed" ELSE "BadJson"

\* The catch block of the handler, lines 43-71: it reads the body again; when
\* that read rejects, the handler itself rejects and the framework answers.
\* Otherwise it updates the status to failed (a failure of the update is
\* logged), deletes the object (a failure is logged) and answers 500.
HandlerCatch(r, updated) ==
  /\ pc[r] = "catch"
  /\ pc' = [pc EXCEPT ![r] = "responded"]
  /\ IF RereadBody(body[r]) = "rejects"
     THEN /\ updated
          /\ response' = [response EXCEPT ![r] = [kind |-> "unhandled"]]
          /\ UNCHANGED <<coll, updCalls, delCalls>>
     ELSE /\ response' = [response EXCEPT ![r] =
               [kind |-> "500", error |-> CaughtMessage(r)]]
          /\ IF "id" \in DOMAIN body[r]
             THEN /\ updCalls' = [updCalls EXCEPT ![r] = @ + 1]
                  /\ coll' = IF updated
                             THEN updatePDFMetadata(coll, body[r].id,
                                                    [status |-> "failed"])
                             ELSE coll
             ELSE UNCHANGED <<coll, updCalls>>
          /\ IF "s3Key" \in DOMAIN body[r]
             THEN delCalls' = [delCalls EXCEPT ![r] = @ + 1]
             ELSE UNCHANGED delCalls
  /\ UNCHANGED <<env, sideVars, presignVars, apiVars, submitted, delFailed, issued, uploadClock,
                 body, procVars>>

\* ------------------------------------------------ api/upload/presigned-url
ContentTypes == {"", "application/pdf", "text/plain"}

\* The initial metadata entry of a document.
InitialMetadata(id, filename, uploadedAt) ==
  [id |-> id, filename |-> filename, extractedText |-> <<>>,
   uploadedAt |-> uploadedAt, status |-> "processing"]

\* A validation that lets every content type through.
MissingOnly(filename, contentType) ==
  IF filename = "" \/ contentType = "" THEN "MissingFields" ELSE ""

\* The validation of lines 86-99: the error it answers with, "" when none.
\* A missing field and an empty string are both falsy.
ValidationError(filename, contentType) ==
  IF filename = "" \/ contentType = "" THEN "MissingFields"
  ELSE IF contentType # "application/pdf" THEN "OnlyPdf"
  ELSE ""

\* POST /api/upload/presigned-url: validation, generatePresignedUploadUrl
\* (line 109), randomUUID (115), addPDFMetadata (118), the response (126-131)
\* or the catch block's (132-141).  presignReq keeps the request and which of
\* the two calls it made.
PresignedUrlRequest(filename, contentType, thrown) ==
  /\ <<filename, contentType, thrown>> \in env.presign
  /\ issued < env.maxIssued
  /\ presignReq' = [filename |-> filename, contentType |-> contentType,
                    signed |-> ValidationError(filename, contentType) = "",
                    added |-> /\ ValidationError(filename, contentType) = ""
                              /\ thrown # "generatePresignedUploadUrl"]
  /\ IF ValidationError(filename, contentType) # ""
     THEN /\ presignResp' =
               [kind |-> "400", error |-> ValidationError(filename, contentType)]
          /\ UNCHANGED storeVars
     ELSE IF thrown # ""
     THEN /\ presignResp' = [kind |-> "500", error |-> thrown]
          /\ UNCHANGED storeVars
     ELSE /\ presignResp' = [kind |-> "200", id |-> issued + 1,
                             uploadUrl |-> "url", s3Key |-> "key"]
          /\ issued' = issued + 1
          /\ uploadClock' = uploadClock + 1
          /\ coll' = addPDFMetadata(coll,
               InitialMetadata(issued + 1, filename, uploadClock + 1))
  /\ UNCHANGED <<env, sideVars, apiVars, submitted, delFailed, handlerVars, procVars>>


\* --------------------------------------- database/mongodb.ts: direct callers
NoCall == [op |-> "none"]
Null == [null |-> TRUE]
Returned(value) == [kind |-> "value", value |-> value]
Thrown(err) == [kind |-> "error", err |-> err]

\* doc => ({id, filename, extractedText, uploadedAt, textractJobId, status})
ToMetadata(doc) == [f \in DOMAIN doc \cap MetadataFields |-> doc[f]]

\* What addPDFMetadata returns (its argument) or throws.
addReturn(c, metadata) ==
  IF Matches(c, metadata.id) # {} THEN Thrown("AddFailed")
  ELSE Returned(metadata)

\* What updatePDFMetadata returns: null when findOneAndUpdate matched no
\* document (lines 261-263), else the document after the update.
updateReturn(c, id, updates) ==
  IF Matches(c, id) = {} THEN Returned(Null)
  ELSE Returned(ToMetadata(updatePDFMetadata(c, id, updates)[FirstMatch(c, id)]))

\* A find without the sort: the collection in insertion order.
findAllUnsorted(c) == { [i \in 1..Len(c) |-> ToMetadata(c[i])] }

\* The orders find({}).sort({uploadedAt: -1}) may deliver the collection in:
\* descending uploadedAt, documents with equal uploadedAt in any order.
getAllMetadata(c) ==
  { [i \in 1..Len(c) |-> ToMetadata(c[p[i]])] :
      p \in { q \in [1..Len(c) -> 1..Len(c)] :
                /\ \A i, j \in 1..Len(c) : i # j => q[i] # q[j]
                /\ \A i \in 1..(Len(c) - 1) :
                     c[q[i]].uploadedAt >= c[q[i + 1]].uploadedAt } }

\* A direct call of addPDFMetadata.
StoreAdd(metadata) ==
  /\ metadata \in
       [id : env.ids, filename : {"a.pdf"}, extractedText : env.texts,
        uploadedAt : env.stamps, status : env.statuses]
  /\ coll' = addPDFMetadata(coll, metadata)
  /\ storeCall' = [op |-> "add", metadata |-> metadata]
  /\ storeRet' = addReturn(coll, metadata)
  /\ UNCHANGED <<env, sideVars, presignVars, issued, uploadClock, searchReq, searchResp, listResp,
                 submitted, delFailed, handlerVars, procVars>>

\* A direct call of updatePDFMetadata.
StoreUpdate(id, updates) ==
  /\ id \in env.ids \cup {UnknownId}
  /\ updates \in env.updates
  /\ coll' = updatePDFMetadata(coll, id, updates)
  /\ storeCall' = [op |-> "update", id |-> id, updates |-> updates]
  /\ storeRet' = updateReturn(coll, id, updates)
  /\ UNCHANGED <<env, sideVars, presignVars, issued, uploadClock, searchReq, searchResp, listResp,
                 submitted, delFailed, handlerVars, procVars>>

\* What saveMetadata returns (nothing) or throws.
saveReturn(metadata) ==
  IF Len(saveMetadata(<<>>, metadata)) < Len(metadata) THEN Thrown("SaveFailed")
  ELSE Returned(Null)

\* A direct call of saveMetadata.
StoreSave(metadata) ==
  /\ metadata \in env.saves
  /\ coll' = saveMetadata(coll, metadata)
  /\ storeCall' = [op |-> "save", metadata |-> metadata]
  /\ storeRet' = saveReturn(metadata)
  /\ UNCHANGED <<env, sideVars, presignVars, issued, uploadClock, searchReq, searchResp, listResp,
                 submitted, delFailed, handlerVars, procVars>>

\* A direct call of getAllMetadata.
StoreGetAll(listing) ==
  /\ listing \in getAllMetadata(coll)
  /\ storeCall' = [op |-> "getAll"]
  /\ storeRet' = Returned(listing)
  /\ UNCHANGED <<env, sideVars, presignVars, storeVars, searchReq, searchResp, listResp, submitted,
                 delFailed, handlerVars, procVars>>

\* ------------------------------------------------- searchMetadata, api/search
\* searchParams.get("q"): null, or the string given.
NoQuery == [absent |-> TRUE]
Q(str) == [q |-> str]

\* String.prototype.toLowerCase and the "i" option, on the letters in use.
Lower(ch) ==
  CASE ch = "A" -> "a" [] ch = "B" -> "b" [] ch = "C" -> "c" [] OTHER -> ch

\* The lower case of one character.  The capital I with a dot above, written
\* "I." here, is the character whose lower case is two characters long: an i
\* and the combining dot above, written "'".
LowerCased(ch) == IF ch = "I." THEN <<"i", "'">> ELSE <<Lower(ch)>>

RECURSIVE toLowerCase(_)
toLowerCase(str) ==
  IF str = <<>> THEN <<>>
  ELSE IF Len(str) = 1 THEN LowerCased(str[1])
  ELSE toLowerCase(SubSeq(str, 1, Len(str) \div 2))
         \o toLowerCase(SubSeq(str, Len(str) \div 2 + 1, Len(str)))

\* A status filter that lets every status through.
AnyStatus(doc) == TRUE

\* { status: "completed" }
IsCompleted(doc) == doc.status = "completed"

\* { extractedText: { $regex: query, $options: "i" } }: the query is compiled
\* as a regular expression.  Of its syntax the model has the literal
\* characters, "." (any character but a newline) and "(" (here always
\* unbalanced, so the expression does not compile and the find throws).
RegexValid(query) == \A i \in 1..Len(query) : query[i] # "("

RegexCharMatches(p, ch) == IF p = "." THEN ch # NL ELSE Lower(p) = Lower(ch)

RegexMatches(text, query) ==
  \E s \in 0..(Len(text) - Len(query)) :
    \A i \in 1..Len(query) : RegexCharMatches(query[i], text[s + i])

\* What the text index can do with a query: throw, or match the documents
\* with the ids in hits.
TextOutcomes(c) ==
  {[throws |-> TRUE, hits |-> {}]}
  \cup {[throws |-> FALSE, hits |-> h] : h \in SUBSET {c[i].id : i \in 1..Len(c)}}

\* searchMetadata, lines 283-326: what it returns or throws.
searchMetadata(c, query, text, regexThrows) ==
  LET TextTest(doc) == IsCompleted(doc) /\ doc.id \in text.hits
      RegexTest(doc) == IsCompleted(doc) /\ RegexMatches(doc.extractedText, query)
      documents == IF text.throws THEN <<>> ELSE SelectSeq(c, TextTest)
      fallback == SelectSeq(c, RegexTest)
  IN IF documents # <<>>
     THEN Returned([i \in 1..Len(documents) |-> ToMetadata(documents[i])])
     ELSE IF regexThrows \/ ~RegexValid(query) THEN Thrown("SearchFailed")
     ELSE Returned([i \in 1..Len(fallback) |-> ToMetadata(fallback[i])])

minQueryLength == 2
previewRadius == 50

RECURSIVE Trim(_)
Trim(str) ==
  IF str = <<>> THEN <<>>
  ELSE IF Head(str) = " " THEN Trim(Tail(str))
  ELSE IF str[Len(str)] = " " THEN Trim(SubSeq(str, 1, Len(str) - 1))
  ELSE str

\* A validation that rejects only the absent and the empty query.
OnlyEmpty(query) == query = NoQuery \/ query.q = <<>>

\* !query || query.trim().length < 2
TooShort(query) ==
  query = NoQuery \/ query.q = <<>> \/ Len(Trim(query.q)) < minQueryLength

\* String.prototype.indexOf: the first offset str holds q at, -1 when none.
indexOf(str, q) ==
  LET at == {o \in 0..(Len(str) - Len(q)) : SubSeq(str, o + 1, o + Len(q)) = q}
  IN IF at = {} THEN -1 ELSE CHOOSE o \in at : \A o2 \in at : o <= o2

Max(a, b) == IF a >= b THEN a ELSE b

\* The match preview of route.ts lines 23-35.
matchPreview(text, query) ==
  LET matchIndex == indexOf(toLowerCase(text), toLowerCase(query))
  IN IF matchIndex = -1 THEN <<>>
     ELSE SubSeq(text, Max(0, matchIndex - previewRadius) + 1,
                 Min(Len(text), matchIndex + Len(query) + previewRadius))

FormatResult(result, query) ==
  [id |-> result.id, filename |-> result.filename,
   uploadedAt |-> result.uploadedAt,
   matchPreview |-> matchPreview(result.extractedText, query),
   extractedText |-> result.extractedText]

\* A comparator that looks at uploadedAt alone.
CompareByDate(a, b, query) == b.uploadedAt - a.uploadedAt

\* The comparator of route.ts lines 47-57: negative when a goes first.
Compare(a, b, query) ==
  LET aExact == indexOf(toLowerCase(a.matchPreview), toLowerCase(query)) # -1
      bExact == indexOf(toLowerCase(b.matchPreview), toLowerCase(query)) # -1
  IN IF aExact /\ ~bExact THEN -1
     ELSE IF ~aExact /\ bExact THEN 1
     ELSE b.uploadedAt - a.uploadedAt

\* Array.prototype.sort with that comparator (a stable sort).
RECURSIVE InsertSorted(_, _, _)
InsertSorted(sorted, x, query) ==
  IF sorted = <<>> THEN <<x>>
  ELSE IF Compare(x, sorted[Len(sorted)], query) >= 0 THEN Append(sorted, x)
  ELSE Append(InsertSorted(SubSeq(sorted, 1, Len(sorted) - 1), x, query),
              sorted[Len(sorted)])

RECURSIVE sort(_, _)
sort(results, query) ==
  IF results = <<>> THEN <<>>
  ELSE InsertSorted(sort(SubSeq(results, 1, Len(results) - 1), query),
                    results[Len(results)], query)

\* GET /api/search?q=query, the one search request of a run.
SearchRequest(query, text, regexThrows) ==
  /\ searchResp = NoResponse
  /\ query \in env.queries
  /\ text \in TextOutcomes(coll)
  /\ regexThrows \in BOOLEAN
  /\ searchReq' = query
  /\ IF TooShort(query)
     THEN /\ searchResp' = [kind |-> "400"]
          /\ UNCHANGED <<storeCall, storeRet>>
     ELSE LET ret == searchMetadata(coll, query.q, text, regexThrows)
          IN /\ storeCall' = [op |-> "search", query |-> query.q, text |-> text,
                              regexThrows |-> regexThrows]
             /\ storeRet' = ret
             /\ searchResp' =
                  IF ret.kind = "error"
                  THEN [kind |-> "500", error |-> ret.err]
                  ELSE LET formatted ==
                             sort([i \in 1..Len(ret.value) |->
                                     FormatResult(ret.value[i], query.q)], query.q)
                       IN [kind |-> "200", query |-> query.q,
                           results |-> formatted,
                           totalResults |-> Len(formatted)]
  /\ UNCHANGED <<env, sideVars, presignVars, storeVars, listResp, submitted, delFailed, handlerVars,
                 procVars>>

\* ------------------------------------------------------------------ api/pdfs
\* A listing entry that carries the text as well.
ToListingWithText(pdf) ==
  [id |-> pdf.id, filename |-> pdf.filename, uploadedAt |-> pdf.uploadedAt,
   status |-> pdf.status, extractedText |-> pdf.extractedText]

\* pdf => ({id, filename, uploadedAt, status})
ToListing(pdf) ==
  [id |-> pdf.id, filename |-> pdf.filename, uploadedAt |-> pdf.uploadedAt,
   status |-> pdf.status]

\* allMetadata.filter(pdf => pdf.status === "completed").map(...)
completedPdfs(allMetadata) ==
  LET kept == SelectSeq(allMetadata, IsCompleted)
  IN [i \in 1..Len(kept) |-> ToListing(kept[i])]

\* GET /api/pdfs, the one listing request of a run; getAllMetadata returns
\* listing or throws.
ListRequest(listing, thrown) ==
  /\ listResp = NoResponse
  /\ listing \in getAllMetadata(coll)
  /\ thrown \in BOOLEAN
  /\ storeCall' = [op |-> "getAll"]
  /\ storeRet' = IF thrown THEN Thrown("LoadFailed") ELSE Returned(listing)
  /\ listResp' =
       IF thrown THEN [kind |-> "500", error |-> "LoadFailed"]
       ELSE [kind |-> "200", pdfs |-> completedPdfs(listing),
             total |-> Len(completedPdfs(listing))]
  /\ UNCHANGED <<env, sideVars, presignVars, storeVars, searchReq, searchResp, submitted, delFailed,
                 handlerVars, procVars>>

\* -------------------------------------------------- components/SearchBar.tsx
\* What the user may type into the input.
BarQueries == {<<>>, <<"a">>, <<"a", "b">>, <<"a", "b", "c">>}

otherBarVars == <<env, uploadVars, connVars, presignVars, apiVars, submitted,
                  delFailed, storeVars, handlerVars, procVars>>

\* handleChange, lines 57-61, with debounceSearch, lines 22-52: a query
\* shorter than two characters is answered at once with no results, for any
\* other a timer of 300 ms is set.  The function debounceSearch returns,
\* which would clear the timer, is dropped by handleChange.
HandleChange(newQuery) ==
  /\ typed < MaxKeys
  /\ newQuery \in BarQueries
  /\ typed' = typed + 1
  /\ IF Len(Trim(newQuery)) < minQueryLength
     THEN /\ delivered' = [n |-> typed + 1, query |-> <<>>]
          /\ UNCHANGED timers
     ELSE /\ timers' = Append(timers, [n |-> typed + 1, query |-> newQuery])
          /\ UNCHANGED delivered
  /\ UNCHANGED <<fetches, otherBarVars>>

\* handleClear, lines 63-67.
HandleClear ==
  /\ typed < MaxKeys
  /\ typed' = typed + 1
  /\ delivered' = [n |-> typed + 1, query |-> <<>>]
  /\ UNCHANGED <<timers, fetches, otherBarVars>>

\* The oldest timer fires (all have the same delay): its callback runs to
\* await fetch, lines 28-35.
TimerFires ==
  /\ timers # <<>>
  /\ timers' = Tail(timers)
  /\ fetches' = fetches \cup {Head(timers)}
  /\ UNCHANGED <<typed, delivered, otherBarVars>>

\* A search request is answered or fails, lines 37-46: onSearch is called
\* with the query of that request, and with no results after a failure.
SearchResponds(f) ==
  /\ f \in fetches
  /\ fetches' = fetches \ {f}
  /\ delivered' = [n |-> f.n, query |-> f.query]
  /\ UNCHANGED <<typed, timers, otherBarVars>>

\* ------------------------------------------- database/mongodb.ts: connection
otherConnVars == <<env, uploadVars, barVars, presignVars, apiVars, submitted,
                   delFailed, storeVars, handlerVars, procVars>>

\* The caller is in no call of the module.
Idle(c) == calls[c].at = "done"

Done(op, ret) == [op |-> op, at |-> "done", ret |-> ret]

\* What a caller of getMongoClient holds when client k is returned to it.
ClientReturned(k, states) ==
  [kind |-> "client", client |-> k,
   state |-> IF k = 0 THEN "null" ELSE states[k]]

\* getMongoClient up to its return or to await client.connect(), lines
\* 32-36 and 46, for a direct caller (op getMongoClient) or for getDatabase:
\* client is assigned before the connect is awaited.
EnterGetMongoClient(c, op) ==
  IF client = 0
  THEN /\ Len(conn) < MaxClients
       /\ conn' = Append(conn, "connecting")
       /\ client' = Len(conn) + 1
       /\ calls' = [calls EXCEPT ![c] =
                      [op |-> op, at |-> "connect", k |-> Len(conn) + 1]]
  ELSE /\ calls' = [calls EXCEPT ![c] =
                      IF op = "getMongoClient"
                      THEN Done(op, ClientReturned(client, conn))
                      ELSE [op |-> op, at |-> "client", k |-> client]]
       /\ UNCHANGED <<client, conn>>

\* A call of getMongoClient.
CallGetMongoClient(c) ==
  /\ Idle(c)
  /\ EnterGetMongoClient(c, "getMongoClient")
  /\ UNCHANGED <<db, otherConnVars>>

\* A call of getDatabase, lines 52-60: the cached handle, or getMongoClient.
CallGetDatabase(c) ==
  /\ Idle(c)
  /\ IF db # 0
     THEN /\ calls' = [calls EXCEPT ![c] =
                         Done("getDatabase", [kind |-> "db", db |-> db])]
          /\ UNCHANGED <<client, conn>>
     ELSE EnterGetMongoClient(c, "getDatabase")
  /\ UNCHANGED <<db, otherConnVars>>

\* await client.connect() ends, lines 36-46: after a failure getMongoClient
\* throws and client stays assigned; after a success it returns what client
\* holds then.  A connect ends on a network event, and those are handled
\* only when no continuation of a settled promise is waiting to run.
ConnectCompletes(c, ok) ==
  /\ calls[c].at = "connect"
  /\ \A d \in Callers : calls[d].at # "client"
  /\ LET k == calls[c].k
         states == [conn EXCEPT ![k] =
                      IF @ = "closed" THEN @
                      ELSE IF ok THEN "connected" ELSE "failed"]
     IN /\ conn' = states
        /\ calls' = [calls EXCEPT ![c] =
                       IF ~ok
                       THEN Done(calls[c].op, [kind |-> "threw", err |-> "ConnectFailed"])
                       ELSE IF calls[c].op = "getMongoClient"
                       THEN Done("getMongoClient", ClientReturned(client, states))
                       ELSE [op |-> "getDatabase", at |-> "client", k |-> client]]
  /\ UNCHANGED <<client, db, otherConnVars>>

\* getDatabase resumes from await getMongoClient(), lines 54-59.
GetDatabaseResumes(c) ==
  /\ calls[c].op = "getDatabase"
  /\ calls[c].at = "client"
  /\ IF calls[c].k = 0
     THEN /\ calls' = [calls EXCEPT ![c] =
                         Done("getDatabase", [kind |-> "threw", err |-> "TypeError"])]
          /\ UNCHANGED db
     ELSE /\ db' = calls[c].k
          /\ calls' = [calls EXCEPT ![c] =
                         Done("getDatabase", [kind |-> "db", db |-> calls[c].k])]
  /\ UNCHANGED <<client, conn, otherConnVars>>

\* A call of closeConnection, lines 73-75.
CallCloseConnection(c) ==
  /\ Idle(c)
  /\ calls' = [calls EXCEPT ![c] =
                 IF client = 0 THEN Done("closeConnection", [kind |-> "void"])
                 ELSE [op |-> "closeConnection", at |-> "close", k |-> client]]
  /\ UNCHANGED <<client, db, conn, otherConnVars>>

\* await client.close() ends, lines 76-78.
CloseCompletes(c) ==
  /\ calls[c].op = "closeConnection"
  /\ calls[c].at = "close"
  /\ conn' = [conn EXCEPT ![calls[c].k] = "closed"]
  /\ client' = 0
  /\ db' = 0
  /\ calls' = [calls EXCEPT ![c] = Done("closeConnection", [kind |-> "void"])]
  /\ UNCHANGED otherConnVars

\* ------------------------------------------------- components/FileUpload.tsx
maxConcurrent == 3

\* The stages of uploadFile in which a request of the file is outstanding.
InFlight == {"presign", "transfer", "process"}

\* A batch that holds every file from i on.
batchOfRest(i, n) == (i + 1)..n

\* selectedFiles.slice(i, i + maxConcurrent), the files numbered from 1.
batch(i, n) == (i + 1)..Min(i + maxConcurrent, n)

\* batch.map(file => uploadFile(file, uploadedFiles)): uploadFile runs for
\* every file of the batch up to its first await, the presigned-url request.
StartBatch(st, i) ==
  [f \in DOMAIN st |-> IF f \in batch(i, selected) THEN "presign" ELSE st[f]]

\* handleUpload, lines 52-62: nothing when no file is selected, else the
\* first batch is started.
HandleUpload ==
  /\ uploadPc = "idle"
  /\ selected > 0
  /\ uploadPc' = "uploading"
  /\ loopIndex' = 0
  /\ stage' = StartBatch(stage, 0)
  /\ UNCHANGED <<env, selected, barVars, connVars, presignVars, apiVars,
                 submitted, delFailed, storeVars, handlerVars, procVars>>

\* A request of file f has been answered and uploadFile has run to its next
\* await, or to its end: its stage becomes next.  When that settles the last
\* file of the batch, Promise.all resolves and handleUpload starts the next
\* batch or, after the last one, finishes (lines 60-70).
Advance(f, from, to, ok) ==
  /\ uploadPc = "uploading"
  /\ f \in 1..selected
  /\ stage[f] = from
  /\ LET st == [stage EXCEPT ![f] = IF ok THEN to ELSE "failed"]
         settled == \A g \in batch(loopIndex, selected) : st[g] \notin InFlight
     IN IF ~settled
        THEN stage' = st /\ UNCHANGED <<loopIndex, uploadPc>>
        ELSE IF loopIndex + maxConcurrent < selected
        THEN /\ loopIndex' = loopIndex + maxConcurrent
             /\ stage' = StartBatch(st, loopIndex + maxConcurrent)
             /\ UNCHANGED uploadPc
        ELSE /\ uploadPc' = "finished"
             /\ stage' = st
             /\ UNCHANGED loopIndex
  /\ UNCHANGED <<env, selected, barVars, connVars, presignVars, apiVars,
                 submitted, delFailed, storeVars, handlerVars, procVars>>

\* uploadFile lines 92-105: the presigned-url request is answered (ok) or
\* fails; then the transfer is started.
PresignResponds(f, ok) == Advance(f, "presign", "transfer", ok)

\* uploadFile lines 108-116: the PUT to the upload URL; then the process
\* request is started.
TransferResponds(f, ok) == Advance(f, "transfer", "process", ok)

\* uploadFile lines 131-153: the process request; then the file is done.
ProcessResponds(f, ok) == Advance(f, "process", "done", ok)

\* ------------------------------------------------------------ specification
NoBody == [none |-> TRUE]

InitRequests ==
  /\ issued = 0
  /\ uploadClock = 0
  /\ pc = [r \in Reqs |-> "idle"]
  /\ body = [r \in Reqs |-> NoBody]
  /\ status = [r \in Reqs |-> ""]
  /\ allBlocks = [r \in Reqs |-> <<>>]
  /\ pollCount = [r \in Reqs |-> 0]
  /\ backoffMs = [r \in Reqs |-> 0]
  /\ clock = [r \in Reqs |-> 0]
  /\ outcome = [r \in Reqs |-> NoOutcome]
  /\ response = [r \in Reqs |-> NoResponse]
  /\ submits = [r \in Reqs |-> 0]
  /\ waits = [r \in Reqs |-> <<>>]
  /\ paged = [r \in Reqs |-> FALSE]
  /\ received = [r \in Reqs |-> <<>>]
  /\ lastOp = [r \in Reqs |-> "none"]
  /\ nOutcomes = [r \in Reqs |-> 0]
  /\ updCalls = [r \in Reqs |-> 0]
  /\ delCalls = [r \in Reqs |-> 0]
  /\ submitted = [r \in Reqs |-> ""]
  /\ delFailed = [r \in Reqs |-> FALSE]
  /\ storeCall = NoCall
  /\ storeRet = NoCall
  /\ searchReq = NoQuery
  /\ searchResp = NoResponse
  /\ listResp = NoResponse
  /\ presignReq = NoBody
  /\ presignResp = NoResponse
  /\ uploadPc = "idle"
  /\ loopIndex = 0
  /\ typed = 0
  /\ timers = <<>>
  /\ fetches = {}
  /\ delivered = [n |-> 0, query |-> <<>>]
  /\ client = 0
  /\ db = 0
  /\ conn = <<>>
  /\ calls = [c \in Callers |-> IdleCall]

InitState ==
  /\ selected = 0
  /\ stage = <<>>
  /\ coll = <<>>
  /\ InitRequests

\* One process request against an empty store; the remote service is free
\* in its answers and its calls take no time or 200 seconds.
Init ==
  /\ env = [reqs |-> {1}, lats |-> {0, Ms(200000)}, horizon |-> Ms(500000),
            room |-> MaxBlocks, kinds |-> BlockKinds,
            statuses |-> JobStatuses \cup {""}]
  /\ InitState

\* Concurrent process requests and uploads; the remote service's calls take
\* 350 seconds, it delivers at most one block to an invocation, a line, and
\* always reports a status.
InitHandlers ==
  /\ env = [reqs |-> Reqs, lats |-> {Ms(350000)}, horizon |-> Ms(750000),
            room |-> 1, kinds |-> {[BlockType |-> "LINE", Text |-> Hello]},
            statuses |-> {"IN_PROGRESS", "SUCCEEDED", "FAILED"},
            presign |-> {<<"a.pdf", "application/pdf", "">>},
            maxIssued |-> MaxDocs]
  /\ InitState

Orchestrate ==
  \/ \E r \in Reqs, b \in Bodies : ProcessRequest(r, b)
  \/ \E r \in Reqs, res \in SubmitResults : SubmitReturns(r, res)
  \/ \E r \in Reqs : WaitElapses(r)
  \/ \E r \in Reqs : \E l \in Latencies(r) : PollThrows(r, l)
  \/ \E r \in Reqs : \E l \in Latencies(r), js \in env.statuses,
                        bl \in Blocks(r), t \in BOOLEAN :
       PollReturns(r, l, js, bl, t)
  \/ \E r \in Reqs : \E l \in Latencies(r) : PageThrows(r, l)
  \/ \E r \in Reqs : \E l \in Latencies(r), bl \in Blocks(r), t \in BOOLEAN :
       PageReturns(r, l, bl, t)
  \/ \E r \in Reqs : HandlerResumes(r)
  \/ \E r \in Reqs, th \in BOOLEAN : DeleteReturns(r, th)
  \/ \E r \in Reqs : UpdateReturns(r)
  \/ \E r \in Reqs : UpdateThrows(r)
  \/ \E r \in Reqs, u \in BOOLEAN : HandlerCatch(r, u)

Next ==
  \/ Orchestrate
  \/ \E i \in env.presign : PresignedUrlRequest(i[1], i[2], i[3])

Spec == Init /\ [][Orchestrate]_vars

SpecHandlers == InitHandlers /\ [][Next]_vars

\* Presigned-url requests alone, with every kind of input and failure.
InitPresign ==
  /\ env = [presign |-> {"", "a.pdf", "b.pdf"} \X ContentTypes
                          \X {"", "generatePresignedUploadUrl", "addPDFMetadata"},
            maxIssued |-> MaxDocs + 3]
  /\ InitState

NextPresign ==
  \E i \in env.presign : PresignedUrlRequest(i[1], i[2], i[3])

SpecPresign == InitPresign /\ [][NextPresign]_vars

\* One upload action over any number of selected files up to MaxFiles.
InitUpload ==
  /\ env = [reqs |-> {}]
  /\ coll = <<>>
  /\ selected \in 0..MaxFiles
  /\ stage = [f \in 1..selected |-> "selected"]
  /\ InitRequests

NextUpload ==
  \/ HandleUpload
  \/ \E f \in 1..selected, ok \in BOOLEAN : PresignResponds(f, ok)
  \/ \E f \in 1..selected, ok \in BOOLEAN : TransferResponds(f, ok)
  \/ \E f \in 1..selected, ok \in BOOLEAN : ProcessResponds(f, ok)

SpecUpload == InitUpload /\ [][NextUpload]_vars

\* A user at the search input.
InitBar ==
  /\ env = [reqs |-> {}]
  /\ InitState

NextBar ==
  \/ \E q \in BarQueries : HandleChange(q)
  \/ HandleClear
  \/ TimerFires
  \/ \E f \in fetches : SearchResponds(f)

SpecBar == InitBar /\ [][NextBar]_vars

\* Callers of the connection module, no client created yet.
InitConn ==
  /\ env = [reqs |-> {}]
  /\ InitState

NextConn ==
  \/ \E c \in Callers : CallGetMongoClient(c)
  \/ \E c \in Callers : CallGetDatabase(c)
  \/ \E c \in Callers, ok \in BOOLEAN : ConnectCompletes(c, ok)
  \/ \E c \in Callers : GetDatabaseResumes(c)
  \/ \E c \in Callers : CallCloseConnection(c)
  \/ \E c \in Callers : CloseCompletes(c)

SpecConn == InitConn /\ [][NextConn]_vars

\* The ids of the records direct callers of the store use.
StoreIds == 1..(MaxDocs + 1)

AB == <<"a", "b">>
Ac == <<"A", "c">>

\* Direct callers of the store against an empty collection.
InitStore ==
  /\ env = [ids |-> StoreIds, texts |-> {AB}, stamps |-> {1, 2},
            statuses |-> {"processing"},
            saves |-> { <<>>,
                        <<[id |-> 1, filename |-> "a.pdf", extractedText |-> AB,
                           uploadedAt |-> 1, status |-> "processing"]>>,
                        <<[id |-> 1, filename |-> "a.pdf", extractedText |-> AB,
                           uploadedAt |-> 1, status |-> "processing"],
                          [id |-> 1, filename |-> "a.pdf", extractedText |-> Ac,
                           uploadedAt |-> 2, status |-> "completed"]>> },
            updates |-> { [status |-> "completed", extractedText |-> Ac],
                          [id |-> 1, status |-> "failed"],
                          [id |-> 2] }]
  /\ InitState

NextStore ==
  \/ \E m \in [id : env.ids, filename : {"a.pdf"}, extractedText : env.texts,
               uploadedAt : env.stamps, status : env.statuses] : StoreAdd(m)
  \/ \E id \in env.ids, u \in env.updates : StoreUpdate(id, u)
  \/ \E l \in getAllMetadata(coll) : StoreGetAll(l)
  \/ \E m \in env.saves : StoreSave(m)

SpecStore == InitStore /\ [][NextStore]_vars

\* The collections a search may find: record i carries id i, any status,
\* one of two texts.
SearchCollections ==
  { c \in SeqsUpTo([id : StoreIds, filename : {"a.pdf"},
                    extractedText : {AB, Ac}, uploadedAt : {1},
                    status : {"processing", "completed", "failed"}],
                   MaxDocs + 1) :
      \A i \in 1..Len(c) : c[i].id = i }

Queries ==
  { NoQuery, Q(<<>>), Q(<<"a">>), Q(<<" ", "a", " ">>), Q(AB),
    Q(<<"A", "B">>), Q(<<"a", ".">>), Q(<<"a", "(">>), Q(Ac) }

\* Search requests against a collection some callers have built.
InitSearch ==
  /\ env = [queries |-> Queries]
  /\ coll \in SearchCollections
  /\ selected = 0
  /\ stage = <<>>
  /\ InitRequests

NextSearch ==
  \E q \in env.queries, t \in TextOutcomes(coll), th \in BOOLEAN :
    SearchRequest(q, t, th)

SpecSearch == InitSearch /\ [][NextSearch]_vars

Repeat(ch, n) == [i \in 1..n |-> ch]

\* Texts longer than the preview: the query Ac after 60 characters and before
\* 60 more, at the start with a second occurrence 60 characters on, at the
\* end after 60 characters, and after 60 capital dotted I.
Middle == Repeat("x", 60) \o Ac \o Repeat("y", 60)
Front == Ac \o Repeat("y", 60) \o <<"a", "c">>
End == Repeat("x", 60) \o Ac
Dotted == Repeat("I.", 60) \o Ac \o Repeat("y", 60)

\* Collections of completed records, record i with id i.
PreviewCollections ==
  { c \in SeqsUpTo([id : StoreIds, filename : {"a.pdf"},
                    extractedText : {AB, Middle, Front, End, Dotted},
                    uploadedAt : {1, 2}, status : {"completed"}],
                   MaxDocs + 1) :
      \A i \in 1..Len(c) : c[i].id = i }

\* Search requests for "Ac" and "a." against completed records.
InitPreview ==
  /\ env = [queries |-> {Q(Ac), Q(<<"a", ".">>)}]
  /\ coll \in PreviewCollections
  /\ selected = 0
  /\ stage = <<>>
  /\ InitRequests

SpecPreview == InitPreview /\ [][NextSearch]_vars

\* Listing requests against a collection some callers have built.
InitListing ==
  /\ env = [queries |-> {}]
  /\ coll \in { c \in SeqsUpTo([id : StoreIds, filename : {"a.pdf"},
                                extractedText : {AB}, uploadedAt : {1, 2},
                                status : {"processing", "completed", "failed"}],
                               MaxDocs + 1) :
                 \A i \in 1..Len(c) : c[i].id = i }
  /\ selected = 0
  /\ stage = <<>>
  /\ InitRequests

NextListing ==
  \E l \in getAllMetadata(coll), th \in BOOLEAN : ListRequest(l, th)

SpecListing == InitListing /\ [][NextListing]_vars

\* ------------------------------------------------------------------ claims
Running(r) == pc[r] \in {"submitting", "waiting", "polling", "paging"}

SubmissionErrors == {"Throttled", "TooLarge", "InvalidS3Object", "StartFailed"}

Ids(c) == {c[i].id : i \in 1..Len(c)}

Doc(c, id) == c[FirstMatch(c, id)]

C2_EndsWithinCeiling ==
  \A r \in Reqs :
    pc[r] \in {"waiting", "polling", "paging"} => clock[r] <= Ms(timeoutMs)

\* C3: when the remote still reports IN_PROGRESS and more than the ceiling has
\* passed since submission, processDocument does not wait again but throws
\* the timeout error, and that outcome carries none of the blocks received.
C3_TimeoutNoPartial ==
  \A r \in Reqs :
    /\ pc[r] = "waiting" => clock[r] <= 5 * 60 * 1000 * 4
    /\ ( /\ pc[r] = "settled"
         /\ status[r] = "IN_PROGRESS"
         /\ outcome[r].kind = "error"
         /\ outcome[r].err \notin {"StatusFailed", "PageFailed"} )
       => /\ outcome[r] = [kind |-> "error", err |-> "Timeout"]
          /\ clock[r] > 5 * 60 * 1000 * 4
    /\ (pc[r] = "settled" /\ status[r] = "IN_PROGRESS")
         => outcome[r].kind = "error"

\* C3 witness: a timeout after blocks had been received.
C3_Witness ==
  \E r \in Reqs :
    /\ pc[r] = "settled"
    /\ outcome[r] = Throw("Timeout")
    /\ received[r] # <<>>

RECURSIVE Pow(_, _)
Pow(b, n) == IF n = 0 THEN 1 ELSE b * Pow(b, n - 1)

\* min(2 * 1.5^(k-1), 30) seconds, in quarter milliseconds.
WaitBefore(k) ==
  IF 2 * Pow(3, k - 1) >= 30 * Pow(2, k - 1) THEN 30 * 4000
  ELSE (2 * 4000 * Pow(3, k - 1)) \div Pow(2, k - 1)

\* C4: a wait precedes every status poll, and the wait before the k-th poll
\* lasts min(2 * 1.5^(k-1), 30) seconds: 2 seconds first, never shorter than
\* the wait before, never more than 30 seconds.
C4_Backoff ==
  \A r \in Reqs :
    /\ \A k \in 1..Len(waits[r]) :
         /\ waits[r][k] = WaitBefore(k)
         /\ waits[r][k] <= 30 * 4000
         /\ k > 1 => waits[r][k - 1] <= waits[r][k]
    /\ Len(waits[r]) > 0 => waits[r][1] = 2 * 4000
    /\ pc[r] = "polling" => lastOp[r] = "wait" /\ Len(waits[r]) = pollCount[r] + 1
    /\ pc[r] \in {"waiting", "paging"} => Len(waits[r]) = pollCount[r]
    /\ pc[r] = "settled" =>
         Len(waits[r]) = (IF lastOp[r] = "poll" /\ outcome[r] = Throw("StatusFailed")
                          THEN pollCount[r] + 1 ELSE pollCount[r])

\* C4 witness: the ninth poll is awaited, its wait at the cap like the one
\* before it.
C4_Witness ==
  \E r \in Reqs :
    /\ pc[r] = "polling"
    /\ Len(waits[r]) = 9
    /\ waits[r][7] < waits[r][8]
    /\ waits[r][8] = waits[r][9]

RECURSIVE LineTexts(_)
LineTexts(blocks) ==
  IF blocks = <<>> THEN <<>>
  ELSE LET b == blocks[Len(blocks)]
           before == LineTexts(SubSeq(blocks, 1, Len(blocks) - 1))
       IN IF b.BlockType = "LINE"
          THEN Append(before, IF "Text" \in DOMAIN b THEN b.Text ELSE <<>>)
          ELSE before

RECURSIVE NewlineJoined(_)
NewlineJoined(texts) ==
  IF texts = <<>> THEN <<>>
  ELSE IF Len(texts) = 1 THEN texts[1]
  ELSE NewlineJoined(SubSeq(texts, 1, Len(texts) - 1))
         \o <<"\n">> \o texts[Len(texts)]

\* C5: the text processDocument returns is the texts of the LINE blocks among
\* all blocks received from polls and pages, each once, in arrival order,
\* joined by one newline; blocks of other types are dropped.  IN_PROGRESS
\* twice, then SUCCEEDED with the lines Hello and World, gives "Hello\nWorld".
C5_AssembledText ==
  \A r \in Reqs :
    (pc[r] = "settled" /\ outcome[r].kind = "text") =>
      /\ outcome[r].text = NewlineJoined(LineTexts(received[r]))
      /\ received[r] = << [BlockType |-> "LINE", Text |-> Hello],
                          [BlockType |-> "LINE", Text |-> World] >>
           => outcome[r].text =
                <<"H", "e", "l", "l", "o", "\n", "W", "o", "r", "l", "d">>

\* C5 witness: IN_PROGRESS twice, then SUCCEEDED with Hello and World.
C5_Witness ==
  \E r \in Reqs :
    /\ pc[r] = "settled"
    /\ pollCount[r] = 3
    /\ ~paged[r]
    /\ status[r] = "SUCCEEDED"
    /\ outcome[r].kind = "text"
    /\ outcome[r].text = Hello \o <<NL>> \o World

\* C6: the store update for a document id is made only after processDocument
\* has ended, and never while an extraction for the same id is in progress.
C6_UpdateAfterOutcome ==
  \A r \in Reqs :
    (pc[r] = "updating" /\ body[r].id \in Ids(coll)) =>
      /\ nOutcomes[r] = 1
      /\ \A q \in Reqs :
           ("id" \in DOMAIN body[q] /\ body[q].id = body[r].id) => ~Running(q)

Terminal == {"completed", "failed"}

C8_FailureMarksFailed ==
  \A r \in Reqs :
    ( /\ pc[r] = "responded"
      /\ outcome[r].kind = "error"
      /\ body[r].id \in Ids(coll) )
    => /\ updCalls[r] = 1
       /\ Doc(coll, body[r].id).status # "processing"

\* C9: one process request calls updatePDFMetadata at most once, and the
\* update of a record, terminal or not, sets exactly the supplied fields
\* (extractedText and status) whatever they held.
C9_UpdateOnce ==
  [][ \A r \in Reqs :
        /\ updCalls'[r] <= 1
        /\ ( /\ pc[r] = "updating" /\ pc'[r] = "responded"
             /\ body[r].id \in Ids(coll) )
           => /\ Len(coll') = Len(coll)
              /\ Doc(coll', body[r].id) =
                   [Doc(coll, body[r].id) EXCEPT
                      !.extractedText = outcome[r].text,
                      !.status = "completed"] ]_vars

\* C9 witness: a request has updated, once, a record another request had
\* completed with a different text.
C9_Witness ==
  \E r, q \in Reqs :
    /\ r # q
    /\ response[r].kind = "success" /\ response[q].kind = "success"
    /\ response[r].id = response[q].id
    /\ response[r].id \in Ids(coll)
    /\ updCalls[r] = 1 /\ updCalls[q] = 1
    /\ outcome[r].text # outcome[q].text
    /\ Doc(coll, response[r].id).extractedText = outcome[r].text

\* C10: StartDocumentTextDetection is issued once per invocation and never
\* again; after a failed submission processDocument ends with that failure
\* having waited, polled and fetched nothing, and a failed poll or page
\* fetch ends it as well.
C10_NoRetry ==
  \A r \in Reqs :
    /\ submits[r] <= 1
    /\ (Running(r) \/ pc[r] = "settled") => submits[r] = 1
    /\ pc[r] = "settled" =>
         /\ lastOp[r] = "submit" <=>
              (outcome[r].kind = "error" /\ outcome[r].err \in SubmissionErrors)
         /\ lastOp[r] = "submit" =>
              pollCount[r] = 0 /\ ~paged[r] /\ waits[r] = <<>>
         /\ outcome[r] = Throw("StatusFailed") => lastOp[r] = "poll"
         /\ outcome[r] = Throw("PageFailed") => lastOp[r] = "page"

\* C10 witness: a submission refused for throttling has ended the invocation.
C10_Witness ==
  \E r \in Reqs :
    /\ pc[r] = "settled"
    /\ outcome[r] = Throw("Throttled")
    /\ submits[r] = 1

\* C11: the errors processDocument throws tell their causes apart: a job
\* reported FAILED, a timeout and each submission failure carry different
\* messages, and rejections for throttling, an oversized document and an
\* invalid object are three different errors, each thrown for its own
\* rejection only.
C11_DistinctErrors ==
  /\ \A e1, e2 \in SubmissionErrors \cup {"JobFailed", "Timeout"} :
       Message(e1) = Message(e2) => e1 = e2
  /\ \A r \in Reqs :
       (pc[r] = "settled" /\ outcome[r].kind = "error") =>
         /\ submitted[r] = "ThrottlingException" <=> outcome[r].err = "Throttled"
         /\ submitted[r] = "DocumentTooLargeException" <=> outcome[r].err = "TooLarge"
         /\ submitted[r] = "InvalidS3ObjectException"
              <=> outcome[r].err = "InvalidS3Object"
         /\ lastOp[r] = "submit" <=> outcome[r].err \in SubmissionErrors
         /\ outcome[r].err = "JobFailed" =>
              status[r] = "FAILED" /\ lastOp[r] \in {"poll", "page"}
         /\ outcome[r].err = "Timeout" =>
              /\ status[r] = "IN_PROGRESS" /\ lastOp[r] \in {"poll", "page"}
              /\ clock[r] > Ms(timeoutMs)

\* C11 witness: an invocation ended by the remote failure after a submission
\* that was accepted.
C11_Witness ==
  \E r \in Reqs :
    /\ pc[r] = "settled"
    /\ submitted[r] = "JobId"
    /\ outcome[r] = Throw("JobFailed")

\* C12: a list searchMetadata returns holds completed records only, whether
\* it comes from the text index or from the fallback, and so does the
\* response of the search request.
C12_SearchOnlyCompleted ==
  /\ (storeCall.op = "search" /\ storeRet.kind = "value") =>
       \A i \in 1..Len(storeRet.value) : storeRet.value[i].status = "completed"
  /\ searchResp.kind = "200" =>
       \A i \in 1..Len(searchResp.results) :
         /\ searchResp.results[i].id \in Ids(coll)
         /\ Doc(coll, searchResp.results[i].id).status = "completed"

\* C12 witness: a search answered from the text index, which also matched a
\* record that is not completed and whose text matches the query as well.
C12_Witness ==
  /\ storeCall.op = "search"
  /\ storeRet.kind = "value" /\ storeRet.value # <<>>
  /\ ~storeCall.text.throws
  /\ \E i \in 1..Len(coll) :
       /\ coll[i].status # "completed"
       /\ coll[i].id \in storeCall.text.hits
       /\ RegexMatches(coll[i].extractedText, storeCall.query)

\* str contains q, letter case ignored.
ContainsIgnoreCase(str, q) ==
  \E o \in 0..(Len(str) - Len(q)) :
    \A i \in 1..Len(q) :
      (IF str[o + i] \in {"A", "B", "C"}
       THEN CHOOSE l \in {"a", "b", "c"} :
              <<str[o + i], l>> \in {<<"A", "a">>, <<"B", "b">>, <<"C", "c">>}
       ELSE str[o + i])
      = (IF q[i] \in {"A", "B", "C"}
         THEN CHOOSE l \in {"a", "b", "c"} :
                <<q[i], l>> \in {<<"A", "a">>, <<"B", "b">>, <<"C", "c">>}
         ELSE q[i])

RECURSIVE CompletedContaining(_, _)
CompletedContaining(c, q) ==
  IF c = <<>> THEN <<>>
  ELSE LET before == CompletedContaining(SubSeq(c, 1, Len(c) - 1), q)
           d == c[Len(c)]
       IN IF d.status = "completed" /\ ContainsIgnoreCase(d.extractedText, q)
          THEN Append(before, d) ELSE before

\* C13: when the text index throws or matches no completed record, search
\* returns the completed records whose text contains the query, letter case
\* ignored; it throws only when that second query itself fails.
C13_FallbackSubstring ==
  (storeCall.op = "search"
   /\ (storeCall.text.throws
       \/ \A i \in 1..Len(coll) :
            ~(coll[i].status = "completed" /\ coll[i].id \in storeCall.text.hits)))
  => IF storeCall.regexThrows THEN storeRet.kind = "error"
     ELSE storeRet = [kind |-> "value",
                      value |-> CompletedContaining(coll, storeCall.query)]

\* C14: a search request without a query, or with one shorter than two
\* characters, is answered with the validation error and searchMetadata is
\* not called for it.
C14_ShortQueryRejected ==
  (searchResp # NoResponse
   /\ (searchReq = NoQuery \/ Len(searchReq.q) < 2))
  => /\ searchResp = [kind |-> "400"]
     /\ storeCall = NoCall /\ storeRet = NoCall

\* C14 witness: the query "a" has been rejected.
C14_Witness ==
  /\ searchReq = Q(<<"a">>)
  /\ searchResp.kind = "400"

\* C15: adding a record whose id is already stored throws and leaves the
\* collection as it was, and no two stored records share an id.
C15_UniqueIds ==
  /\ [](\A i, j \in 1..Len(coll) : coll[i].id = coll[j].id => i = j)
  /\ [][ (storeCall'.op = "add" /\ storeCall'.metadata.id \in Ids(coll))
         => /\ storeRet'.kind = "error"
            /\ coll' = coll ]_vars

\* C15 witness: an add was refused for an id stored with another uploadedAt.
C15_Witness ==
  /\ storeCall.op = "add"
  /\ storeRet.kind = "error"
  /\ storeCall.metadata.id \in Ids(coll)
  /\ Doc(coll, storeCall.metadata.id).uploadedAt # storeCall.metadata.uploadedAt

\* C16: an update of an existing record sets exactly the supplied fields
\* other than id and returns the record as updated; its other fields, its
\* id and every other record stay as they were.
C16_UpdateFrame ==
  [][ (storeCall'.op = "update" /\ storeCall'.id \in Ids(coll))
      => /\ Len(coll') = Len(coll)
         /\ \A i \in 1..Len(coll) :
              IF coll[i].id = storeCall'.id
              THEN /\ DOMAIN coll'[i] = DOMAIN coll[i]
                   /\ coll'[i].id = coll[i].id
                   /\ \A f \in DOMAIN coll[i] \ {"id"} :
                        coll'[i][f] = IF f \in DOMAIN storeCall'.updates
                                      THEN storeCall'.updates[f]
                                      ELSE coll[i][f]
                   /\ storeRet' = [kind |-> "value", value |-> coll'[i]]
              ELSE coll'[i] = coll[i] ]_vars

\* C16 witness: an update that supplied another id has returned the record
\* under its own id, next to a second record.
C16_Witness ==
  /\ storeCall.op = "update"
  /\ "id" \in DOMAIN storeCall.updates
  /\ storeCall.updates.id # storeCall.id
  /\ "status" \in DOMAIN storeCall.updates
  /\ storeRet.kind = "value" /\ storeRet.value # Null
  /\ storeRet.value.id = storeCall.id
  /\ Len(coll) = 2

\* C17: an update for an id no record carries returns null and leaves the
\* collection as it was.
C17_UpdateUnknown ==
  [][ (storeCall'.op = "update" /\ storeCall'.id \notin Ids(coll))
      => /\ storeRet' = [kind |-> "value", value |-> Null]
         /\ coll' = coll ]_vars

\* C17 witness: an update with fields to set has returned null while another
\* record is stored.
C17_Witness ==
  /\ storeCall.op = "update"
  /\ "status" \in DOMAIN storeCall.updates
  /\ storeRet = [kind |-> "value", value |-> Null]
  /\ coll # <<>>
  /\ storeCall.id \notin Ids(coll)

\* C18: after a successful add every listing holds a record with the id,
\* filename and uploadedAt given; after an update with status completed and
\* a text every listing shows the record with those two fields changed and
\* the others as they were; a listing returned holds every stored record.
C18_RoundTrip ==
  /\ [](storeCall.op = "getAll" =>
          \A i \in 1..Len(coll) : \E j \in 1..Len(storeRet.value) :
            storeRet.value[j] = coll[i])
  /\ [][ /\ (storeCall'.op = "add" /\ storeRet'.kind = "value") =>
              \A l \in getAllMetadata(coll') : \E j \in 1..Len(l) :
                /\ l[j].id = storeCall'.metadata.id
                /\ l[j].filename = storeCall'.metadata.filename
                /\ l[j].uploadedAt = storeCall'.metadata.uploadedAt
         /\ ( /\ storeCall'.op = "update"
              /\ DOMAIN storeCall'.updates = {"status", "extractedText"}
              /\ storeCall'.id \in Ids(coll) ) =>
              \A l \in getAllMetadata(coll') : \E j \in 1..Len(l) :
                l[j] = [Doc(coll, storeCall'.id) EXCEPT
                          !.status = storeCall'.updates.status,
                          !.extractedText = storeCall'.updates.extractedText]
       ]_vars

\* C18 witness: a listing of two records, one of them completed with the
\* text an update gave it.
C18_Witness ==
  /\ storeCall.op = "getAll"
  /\ Len(storeRet.value) = 2
  /\ \E j \in 1..2 :
       /\ storeRet.value[j].status = "completed"
       /\ storeRet.value[j].extractedText = Ac
       /\ storeRet.value[j].filename = "a.pdf"

\* C19: when the delete of the success path fails, the handler still calls
\* the update with the extracted text and status completed, and once the
\* update has returned it answers success; the failure changes nothing else.
C19_DeleteFailureTolerated ==
  [][ \A r \in Reqs :
        /\ (pc[r] = "deleting" /\ pc'[r] # "deleting" /\ delFailed'[r]) =>
             /\ pc'[r] = "updating"
             /\ updCalls'[r] = updCalls[r] + 1
             /\ response'[r] = response[r]
             /\ coll' = coll
        /\ (pc[r] = "updating" /\ delFailed[r] /\ pc'[r] = "responded") =>
             /\ response'[r].kind = "success"
             /\ response'[r].extractedTextLength = Len(outcome[r].text)
             /\ body[r].id \in Ids(coll) =>
                  /\ Doc(coll', body[r].id).status = "completed"
                  /\ Doc(coll', body[r].id).extractedText = outcome[r].text
    ]_vars

\* C19 witness: a request whose delete failed has answered success and its
\* record is completed with the text extracted.
C19_Witness ==
  \E r \in Reqs :
    /\ delFailed[r]
    /\ response[r].kind = "success"
    /\ outcome[r].text # <<>>
    /\ body[r].id \in Ids(coll)
    /\ Doc(coll, body[r].id).status = "completed"
    /\ Doc(coll, body[r].id).extractedText = outcome[r].text

\* C20: once a process request whose extraction has ended, with a text or
\* with an error, is answered, deleteFromS3 has been called for it.
C20_DeleteAttempted ==
  \A r \in Reqs :
    (pc[r] = "responded" /\ outcome[r].kind # "none") => delCalls[r] >= 1

\* C21: the status update and the delete do not block or mask each other:
\* a request whose extraction failed is answered with the extraction's own
\* error and a delete has been attempted for it, whatever became of the
\* status update; and a failed delete does not keep the update from being
\* called.
C21_FaultIsolated ==
  \A r \in Reqs :
    /\ (pc[r] = "responded" /\ outcome[r].kind = "error") =>
         /\ delCalls[r] >= 1
         /\ response[r].kind = "500"
         /\ response[r].error = outcome[r].err
    /\ (delFailed[r] /\ pc[r] \in {"updating", "responded"}) => updCalls[r] >= 1

\* C22: every id the presigned-url handler has issued has its record, a
\* record is created with status processing and an empty text, and at its
\* creation no extraction job has been submitted for its id.
C22_RecordBeforeJob ==
  /\ [](\A id \in 1..issued : id \in Ids(coll))
  /\ [](\A r \in Reqs :
          (submits[r] >= 1 /\ body[r].id \in 1..issued) => body[r].id \in Ids(coll))
  /\ [][ \A i \in (Len(coll) + 1)..Len(coll') :
           /\ coll'[i].status = "processing"
           /\ coll'[i].extractedText = <<>>
           /\ \A r \in Reqs :
                (submits[r] >= 1 /\ "id" \in DOMAIN body[r])
                  => body[r].id # coll'[i].id ]_vars

\* C22 witness: a job is being submitted for a document whose record is in
\* processing with an empty text.
C22_Witness ==
  \E r \in Reqs :
    /\ pc[r] = "submitting" /\ submits[r] = 1
    /\ body[r].id \in Ids(coll)
    /\ Doc(coll, body[r].id).status = "processing"
    /\ Doc(coll, body[r].id).extractedText = <<>>

\* C24: once the extraction job of a request has been submitted, the record
\* of its document carries the job id.
C24_JobIdRecorded ==
  \A r \in Reqs :
    (submitted[r] = "JobId" /\ body[r].id \in Ids(coll))
      => "textractJobId" \in DOMAIN Doc(coll, body[r].id)

\* The transient state of one invocation of processDocument.
ProcState(r) ==
  <<status[r], allBlocks[r], pollCount[r], backoffMs[r], clock[r], outcome[r],
    waits[r], received[r], paged[r]>>

\* C25: a step changes the transient state of at most one invocation, and
\* what an invocation holds follows from its own polls and pages alone: its
\* backoff from the number of its polls, its blocks and its text from the
\* blocks it received.
C25_Independent ==
  /\ [](\A r \in Reqs :
          /\ allBlocks[r] = received[r]
          /\ pc[r] \in {"waiting", "polling", "paging", "settled"} =>
               (backoffMs[r] # 0 => backoffMs[r] = WaitBefore(pollCount[r] + 1))
          /\ (pc[r] = "settled" /\ outcome[r].kind = "text") =>
               outcome[r].text = NewlineJoined(LineTexts(received[r])))
  /\ [][ \A r, q \in Reqs :
           (r # q /\ ProcState(r)' # ProcState(r)) => ProcState(q)' = ProcState(q)
       ]_vars

\* C25 witness: two invocations for different documents in their loops at
\* once, one fetching pages with blocks received, the other before its
\* first poll.
C25_Witness ==
  \E r, q \in Reqs :
    /\ r # q
    /\ pc[r] = "paging" /\ received[r] # <<>>
    /\ pc[q] = "polling" /\ pollCount[q] = 0
    /\ body[r].id # body[q].id

\* C26: the updates of concurrent requests for one id are each applied
\* whole: once requests have answered success for a record, it is completed,
\* carries the text of one of them, and its other fields are as created,
\* which is the result of applying their updates one after the other.
C26_SerialUpdates ==
  \A id \in Ids(coll) :
    LET done == {r \in Reqs : response[r].kind = "success" /\ response[r].id = id}
    IN done # {} =>
         \E r \in done :
           Doc(coll, id) = [id |-> id, filename |-> "a.pdf",
                            extractedText |-> outcome[r].text,
                            uploadedAt |-> Doc(coll, id).uploadedAt,
                            status |-> "completed"]

\* C26 witness: one request has updated the record while the update of a
\* second request for the same id, with another text, is outstanding.
C26_Witness ==
  \E r, q \in Reqs :
    /\ r # q
    /\ response[r].kind = "success" /\ response[r].id \in Ids(coll)
    /\ pc[q] = "updating" /\ body[q].id = response[r].id
    /\ outcome[q].text # outcome[r].text
    /\ outcome[r].text # <<>>
    /\ Doc(coll, response[r].id).extractedText = outcome[r].text

\* C23: no step removes a record: every id stored before a step is stored
\* after it.
C23_NeverRemoved == [][Ids(coll) \subseteq Ids(coll')]_vars

\* A letter with its case folded away.
Fold(ch) ==
  IF ch \in {"A", "B", "C"}
  THEN CHOOSE l \in {"a", "b", "c"} :
         <<ch, l>> \in {<<"A", "a">>, <<"B", "b">>, <<"C", "c">>}
  ELSE ch

\* The offsets at which str holds q, letter case ignored.
Occurrences(str, q) ==
  {o \in 0..(Len(str) - Len(q)) : \A i \in 1..Len(q) : Fold(str[o + i]) = Fold(q[i])}

\* C27: the matchPreview of every result is empty when the query does not
\* occur in the result's text, letter case ignored, and else is the text from
\* 50 characters before the first occurrence (or the start) to 50 characters
\* after its end (or the end of the text).
C27_MatchPreview ==
  searchResp.kind = "200" =>
    \A k \in 1..Len(searchResp.results) :
      LET text == searchResp.results[k].extractedText
          q == searchResp.query
          occ == Occurrences(text, q)
      IN IF occ = {} THEN searchResp.results[k].matchPreview = <<>>
         ELSE LET i == CHOOSE o \in occ : \A o2 \in occ : o <= o2
                  from == IF i > 50 THEN i - 50 ELSE 0
                  to == IF i + Len(q) + 50 < Len(text)
                        THEN i + Len(q) + 50 ELSE Len(text)
              IN searchResp.results[k].matchPreview =
                   [n \in 1..(to - from) |-> text[from + n]]

\* The preview of a result holds the query, letter case ignored.
Exact(result, q) == Occurrences(result.matchPreview, q) # {}

\* The place of a result in the list searchMetadata returned.
Place(result) == CHOOSE k \in 1..Len(storeRet.value) : storeRet.value[k].id = result.id

\* C28: in the results of a search no result whose preview lacks the query
\* precedes one whose preview holds it; of two results in the same group
\* the one uploaded later comes first; and two of the same group with equal
\* uploadedAt keep the order searchMetadata returned them in.
C28_Ordering ==
  searchResp.kind = "200" =>
    LET rs == searchResp.results
        q == searchResp.query
    IN /\ Len(rs) = Len(storeRet.value)
       /\ \A i, j \in 1..Len(rs) :
            i < j =>
              /\ ~(~Exact(rs[i], q) /\ Exact(rs[j], q))
              /\ (Exact(rs[i], q) <=> Exact(rs[j], q)) =>
                   /\ rs[i].uploadedAt >= rs[j].uploadedAt
                   /\ rs[i].uploadedAt = rs[j].uploadedAt => Place(rs[i]) < Place(rs[j])

\* C28 witness: a result whose preview holds the query precedes one uploaded
\* later whose preview lacks it.
C28_Witness ==
  /\ searchResp.kind = "200"
  /\ Len(searchResp.results) = 2
  /\ Exact(searchResp.results[1], searchResp.query)
  /\ ~Exact(searchResp.results[2], searchResp.query)
  /\ searchResp.results[1].uploadedAt < searchResp.results[2].uploadedAt

\* C29: what getAllMetadata returns holds every stored record once and
\* nothing else, later uploadedAt first.
C29_GetAllSorted ==
  (storeCall.op = "getAll" /\ storeRet.kind = "value") =>
    LET l == storeRet.value
    IN /\ Len(l) = Len(coll)
       /\ \A i \in 1..Len(coll) :
            Cardinality({j \in 1..Len(l) : l[j] = coll[i]}) = 1
       /\ \A j \in 1..(Len(l) - 1) : l[j].uploadedAt >= l[j + 1].uploadedAt

\* C29 witness: two records are returned in the reverse of the order they
\* were inserted in.
C29_Witness ==
  /\ storeCall.op = "getAll" /\ storeRet.kind = "value"
  /\ Len(coll) = 2 /\ Len(storeRet.value) = 2
  /\ storeRet.value[1] = coll[2]
  /\ storeRet.value[1].uploadedAt > storeRet.value[2].uploadedAt

\* C30: a listing holds one entry for each completed record and none for
\* any other, each entry made of the record's id, filename, uploadedAt and
\* status and of nothing else, and total is their number.
C30_ListingCompletedOnly ==
  listResp.kind = "200" =>
    /\ listResp.total = Len(listResp.pdfs)
    /\ \A k \in 1..Len(listResp.pdfs) :
         LET e == listResp.pdfs[k]
         IN /\ DOMAIN e = {"id", "filename", "uploadedAt", "status"}
            /\ e.status = "completed"
            /\ e.id \in Ids(coll)
            /\ \A f \in DOMAIN e : e[f] = Doc(coll, e.id)[f]
    /\ \A i \in 1..Len(coll) :
         Cardinality({k \in 1..Len(listResp.pdfs) : listResp.pdfs[k].id = coll[i].id})
           = IF coll[i].status = "completed" THEN 1 ELSE 0

\* C30 witness: a listing with an entry, of a collection that also holds a
\* record that is not completed.
C30_Witness ==
  /\ listResp.kind = "200"
  /\ listResp.pdfs # <<>>
  /\ \E i \in 1..Len(coll) : coll[i].status # "completed"

\* C32: after a status poll that carried a token the invocation fetches
\* pages, each fetch issued when the one before has returned and without a
\* wait or a poll in between, and leaves the page loop, for the next wait or
\* for its end, only on a page without a token or on a failed fetch.
C32_PagesOneAtATime ==
  [][ \A r \in Reqs :
        /\ pc'[r] = "paging" => pc[r] \in {"polling", "paging"}
        /\ (pc[r] = "polling" /\ pc'[r] = "paging") =>
             /\ lastOp'[r] = "poll"
             /\ waits'[r] = waits[r]
        /\ (pc[r] = "paging" /\ <<pc[r], ProcState(r)>>' # <<pc[r], ProcState(r)>>) =>
             /\ lastOp'[r] = "page"
             /\ waits'[r] = waits[r]
             /\ pollCount'[r] = pollCount[r]
             /\ backoffMs'[r] = backoffMs[r]
             /\ pc'[r] \in {"paging", "waiting", "settled"}
        /\ (pc[r] = "paging" /\ pc'[r] = "waiting") => status[r] = "IN_PROGRESS"
    ]_vars

\* C32 witness: the pages of the first poll have been fetched and the
\* invocation is in its second wait.
C32_Witness ==
  \E r \in Reqs :
    /\ pc[r] = "waiting" /\ paged[r] /\ lastOp[r] = "page"
    /\ pollCount[r] = 1 /\ Len(waits[r]) = 1
    /\ received[r] # <<>>

\* C33: an invocation that returned a text had SUCCEEDED as the last status
\* the remote service reported.
C33_TextOnlyAfterSucceeded ==
  \A r \in Reqs :
    (pc[r] = "settled" /\ outcome[r].kind = "text") => status[r] = "SUCCEEDED"

\* C34: a step of processDocument, from its call to its return or throw,
\* leaves the collection and the counts of update and delete calls as they
\* were.
C34_NoStoreEffect ==
  [][ \A r \in Reqs :
        ( /\ pc[r] \in {"idle", "submitting", "waiting", "polling", "paging"}
          /\ pc'[r] \in {"submitting", "waiting", "polling", "paging", "settled"}
          /\ <<pc[r], ProcState(r)>>' # <<pc[r], ProcState(r)>> )
        => /\ coll' = coll
           /\ updCalls' = updCalls
           /\ delCalls' = delCalls
    ]_vars

\* C34 witness: an invocation has returned its text, no update or delete has
\* been called and the record of its document is as created.
C34_Witness ==
  \E r \in Reqs :
    /\ pc[r] = "settled" /\ outcome[r].kind = "text" /\ outcome[r].text # <<>>
    /\ updCalls[r] = 0 /\ delCalls[r] = 0
    /\ body[r].id \in Ids(coll)
    /\ Doc(coll, body[r].id).status = "processing"
    /\ Doc(coll, body[r].id).extractedText = <<>>

\* C36: a request answered with success names an id that has a record, and
\* the record is completed and carries the text the request's invocation
\* returned.
C36_SuccessMeansStored ==
  \A r \in Reqs :
    response[r].kind = "success" =>
      /\ response[r].id \in Ids(coll)
      /\ Doc(coll, response[r].id).status = "completed"
      /\ Doc(coll, response[r].id).extractedText = outcome[r].text

\* C37: a record that is not completed has an empty text, and a step that
\* changes the text of a record leaves it completed with the text an
\* invocation returned.
C37_TextOnlyWithCompleted ==
  /\ [](\A i \in 1..Len(coll) :
          coll[i].status # "completed" => coll[i].extractedText = <<>>)
  /\ [][ \A i \in 1..Len(coll) :
           coll'[i].extractedText # coll[i].extractedText =>
             /\ coll'[i].status = "completed"
             /\ \E r \in Reqs :
                  /\ outcome[r].kind = "text"
                  /\ coll'[i].extractedText = outcome[r].text ]_vars

\* C37 witness: a request whose extraction failed after the job was
\* submitted has been answered and the record of its document has no text.
C37_Witness ==
  \E r \in Reqs :
    /\ pc[r] = "responded"
    /\ outcome[r].kind = "error"
    /\ outcome[r].err \in {"JobFailed", "Timeout"}
    /\ body[r].id \in Ids(coll)
    /\ Doc(coll, body[r].id).extractedText = <<>>

\* C35: a presigned-url request without a filename, without a content type
\* or with a content type other than application/pdf is answered 400 with a
\* validation error, and it makes neither the call that signs an upload URL
\* nor the insert: no id is issued and the collection stays as it was.
C35_PresignValidation ==
  /\ [](( /\ presignResp # NoResponse
          /\ \/ presignReq.filename = ""
             \/ presignReq.contentType # "application/pdf" )
        => /\ presignResp.kind = "400"
           /\ DOMAIN presignResp = {"kind", "error"}
           /\ presignResp.error \in {"MissingFields", "OnlyPdf"}
           /\ ~presignReq.signed /\ ~presignReq.added)
  /\ [][ ( /\ presignReq' # presignReq \/ presignResp' # presignResp
           /\ \/ presignReq'.filename = ""
              \/ presignReq'.contentType # "application/pdf" )
         => coll' = coll /\ issued' = issued ]_vars

\* C35 witness: a request with a filename and the content type text/plain
\* has been rejected while a record of an earlier request is stored.
C35_Witness ==
  /\ presignResp = [kind |-> "400", error |-> "OnlyPdf"]
  /\ presignReq.filename = "a.pdf" /\ presignReq.contentType = "text/plain"
  /\ Len(coll) = 1

\* C31: during an upload action at most three files have a request of their
\* pipeline outstanding, and only files of the current batch do.
C31_AtMostThreeInFlight ==
  /\ Cardinality({f \in 1..selected : stage[f] \in InFlight}) <= 3
  /\ \A f \in 1..selected :
       stage[f] \in InFlight => (uploadPc = "uploading" /\ f > loopIndex /\ f <= loopIndex + 3)

\* C31 witness: three files of the second batch are in flight, in three
\* different stages, while a seventh file has not been started.
C31_Witness ==
  /\ selected = 7 /\ loopIndex = 3
  /\ stage[4] = "presign" /\ stage[5] = "transfer" /\ stage[6] = "process"
  /\ stage[7] = "selected"
  /\ stage[1] = "done" /\ stage[2] = "failed"

\* C38: the calls of onSearch follow the order of typing, a later call never
\* belonging to an earlier change of the input than the one before it, and a
\* search is started only for the latest change of the input.
C38_LatestQueryWins ==
  [][ /\ delivered'.n >= delivered.n
      /\ \A f \in fetches' \ fetches : f.n = typed ]_vars

\* C39: a client that getMongoClient has returned to a caller had completed
\* its connect when it was returned.
C39_ReturnedClientConnected ==
  \A c \in Callers :
    ( /\ calls[c].op = "getMongoClient"
      /\ calls[c].at = "done"
      /\ calls[c].ret.kind = "client" )
    => calls[c].ret.state = "connected"

\* C40: while a database handle is cached a client is cached, and the handle
\* came from that client.
C40_HandleOfCachedClient ==
  db # 0 => (client # 0 /\ db = client)

====
